---- MODULE Spec2Model ----
(***************************************************************************)
(* Demand-response sink components of DR_modeling_oemof.                   *)
(*                                                                         *)
(* The components are constructed from user parameters (SinkDSM.__init__,  *)
(* SinkDR.__init__), choose a constraint block (constraint_group) and the  *)
(* block's _create runs one BuildAction rule after the other, each adding  *)
(* linear constraints over the time-indexed decision variables.  The model *)
(* keeps, for every constraint container, the structural data of the       *)
(* constraints the rule adds (index windows, branch taken), and keeps the  *)
(* decision variables as state that a solver step may raise one unit at a  *)
(* time; Feasible evaluates the built constraints on the current values.   *)
(*                                                                         *)
(* Real-valued quantities are integers; the efficiency is the fraction     *)
(* efficiency[1] / efficiency[2] and every equation is cross-multiplied.   *)
(***************************************************************************)
EXTENDS Integers, FiniteSets, Sequences, TLC

VARIABLES
    pc,                  \* position of the program
    err,                 \* exception raised so far ("none" if none)
    blockClass,          \* constraint block class returned by constraint_group
    module,              \* the source module the component comes from
    \* ---- attributes set by SinkDSM.__init__ / SinkDR.__init__
    method, shift_interval, delay_time, shift_time, shed_time,
    recovery_time_shift, recovery_time_shed,
    shed_eligibility, shift_eligibility,
    efficiency, demand, capacity_up, capacity_down,
    ActivateYearLimit, ActivateDayLimit, addition,
    n_yearLimit_shift, n_yearLimit_shed, t_dayLimit,
    \* ---- the optimisation model m
    horizon,             \* number of timesteps; m.TIMESTEPS = 0 .. horizon-1
    timeincrement,       \* m.timeincrement[t], the same for every t
    \* ---- the constraint containers of the block being created
    block,
    \* ---- decision variables (pyomo Var, initialize=0, NonNegativeReals)
    dsm_up, dsm_do, dsm_do_shift, dsm_do_shed,
    balance_dsm_do, balance_dsm_up,
    \* ---- a call of extract_results(model, approach, **kwargs)
    approach,            \* the approach argument
    use_no_shed,         \* kwargs.get('use_no_shed', False)
    dsm_seqs,            \* the 'sequences' DataFrame of node 'demand_dsm'
    rename_inplace,      \* what Series.rename(name, inplace=True) returns
    df_model             \* the DataFrame returned

attrs == <<module, method, shift_interval, delay_time, shift_time, shed_time,
           recovery_time_shift, recovery_time_shed,
           shed_eligibility, shift_eligibility,
           efficiency, demand, capacity_up, capacity_down,
           ActivateYearLimit, ActivateDayLimit, addition,
           n_yearLimit_shift, n_yearLimit_shed, t_dayLimit,
           horizon, timeincrement>>

decision == <<dsm_up, dsm_do, dsm_do_shift, dsm_do_shed,
              balance_dsm_do, balance_dsm_up>>

extraction == <<approach, use_no_shed, dsm_seqs, rename_inplace, df_model>>

vars == <<pc, err, blockClass, attrs, block, decision, extraction>>

(***************************************************************************)
(* Bounds of the model.                                                    *)
(***************************************************************************)
MaxHorizon == 5
MaxDelay == 2
MaxInterval == 3
MaxCapacity == 2
MaxUnits == 4
NRows == 2

\* Python's None for a numeric parameter: a value no parameter takes
None == 0 - 1

\* a constraint container no rule has filled yet
Empty == [i \in {} |-> {}]

\* a decision variable the block has not declared
NoVar == Empty

\* the containers of a block before any BuildAction has run
EmptyBlock ==
    [ shift_shed_vars |-> Empty, input_output_relation |-> Empty,
      dsm_up_constraint |-> Empty, dsm_down_constraint |-> Empty,
      dsm_sum_constraint |-> Empty, dsm_updo_constraint |-> Empty,
      dsm_do_constraint |-> Empty, C2_constraint |-> Empty,
      recovery_constraint |-> Empty, shed_limit_constraint |-> Empty,
      capacity_balance_red |-> Empty, capacity_balance_inc |-> Empty,
      availability_red |-> Empty, availability_inc |-> Empty,
      dr_storage_red |-> Empty, dr_storage_inc |-> Empty,
      dr_storage_limit_red |-> Empty, dr_storage_limit_inc |-> Empty,
      dr_logical_constraint |-> Empty ]

TIMESTEPS == 0 .. (horizon - 1)
Last == horizon - 1

\* Python's range(a, b)
Range(a, b) == a .. (b - 1)

\* Python's range(a, b, step), step >= 1
RangeStep(a, b, step) == { k \in a .. (b - 1) : (k - a) % step = 0 }

Max(a, b) == IF a >= b THEN a ELSE b
Min(a, b) == IF a <= b THEN a ELSE b

\* sum of f[x] for x in S, for f with values in Nat: the number of pairs
\* <<x, k>> with 1 <= k <= f[x]
Sum(f, S) == Cardinality(UNION { { <<x, k>> : k \in 1 .. f[x] } : x \in S })

(***************************************************************************)
(* SinkDSM.constraint_group                                                *)
(***************************************************************************)
Methods == {"delay", "interval", "DELAY", "shed"}

\* a plausible slip: the shift_interval check is forgotten
constraint_group_no_interval_check ==
    IF method = "delay"
    THEN IF delay_time = None THEN "ValueError"
         ELSE IF ~shed_eligibility /\ ~shift_eligibility THEN "ValueError"
         ELSE IF shed_eligibility /\ recovery_time_shed = None
              THEN "ValueError"
         ELSE "SinkDSMDelayBlock"
    ELSE IF method = "interval" THEN "SinkDSMIntervalBlock"
    ELSE "ValueError"

\* a plausible slip: recovery_time_shed is not checked
constraint_group_no_recovery_check ==
    IF method = "delay"
    THEN IF delay_time = None THEN "ValueError"
         ELSE IF ~shed_eligibility /\ ~shift_eligibility THEN "ValueError"
         ELSE "SinkDSMDelayBlock"
    ELSE IF method = "interval"
    THEN IF shift_interval = None THEN "ValueError"
         ELSE "SinkDSMIntervalBlock"
    ELSE "ValueError"

\* the value constraint_group returns, or "ValueError" when it raises
constraint_group_block ==
    IF method = "delay"
    THEN IF delay_time = None THEN "ValueError"
         ELSE IF ~shed_eligibility /\ ~shift_eligibility THEN "ValueError"
         ELSE IF shed_eligibility /\ recovery_time_shed = None
              THEN "ValueError"
         ELSE "SinkDSMDelayBlock"
    ELSE IF method = "interval"
    THEN IF shift_interval = None THEN "ValueError"
         ELSE "SinkDSMIntervalBlock"
    ELSE "ValueError"

constraint_group ==
    /\ pc = "constructed"
    /\ LET r == constraint_group_block
       IN  /\ blockClass' = (IF r = "ValueError" THEN "none" ELSE r)
           /\ err' = (IF r = "ValueError" THEN "ValueError" ELSE "none")
           /\ pc' = (IF r = "ValueError" THEN "raised in constraint_group"
                                         ELSE "grouped")
    /\ UNCHANGED <<attrs, extraction, block, decision>>

(***************************************************************************)
(* SinkDSMIntervalBlock._create                                            *)
(***************************************************************************)
\* self.dsm_do, self.dsm_up = Var(self.dsm, m.TIMESTEPS, initialize=0, ...)
interval_create_vars ==
    /\ pc = "grouped"
    /\ blockClass = "SinkDSMIntervalBlock"
    /\ dsm_do' = [t \in TIMESTEPS |-> 0]
    /\ dsm_up' = [t \in TIMESTEPS |-> 0]
    /\ pc' = "interval_input_output_relation"
    /\ UNCHANGED <<err, blockClass, attrs, extraction, block,
                   dsm_do_shift, dsm_do_shed,
                   balance_dsm_do, balance_dsm_up>>

\* flow == demand[t] + dsm_up[g, t] - dsm_do[g, t], one constraint per t
interval_input_output_relation_rule ==
    /\ pc = "interval_input_output_relation"
    /\ block' = [block EXCEPT !.input_output_relation =
                    [t \in TIMESTEPS |-> [up |-> {t}, down |-> {t}]]]
    /\ pc' = "interval_dsm_up_constraint"
    /\ UNCHANGED <<err, blockClass, attrs, extraction, decision>>

\* dsm_up[g, t] <= capacity_up[t]
interval_dsm_up_constraint_rule ==
    /\ pc = "interval_dsm_up_constraint"
    /\ block' = [block EXCEPT !.dsm_up_constraint =
                    [t \in TIMESTEPS |-> capacity_up]]
    /\ pc' = "interval_dsm_down_constraint"
    /\ UNCHANGED <<err, blockClass, attrs, extraction, decision>>

\* dsm_do[g, t] <= capacity_down[t]
interval_dsm_down_constraint_rule ==
    /\ pc = "interval_dsm_down_constraint"
    /\ block' = [block EXCEPT !.dsm_down_constraint =
                    [t \in TIMESTEPS |-> capacity_down]]
    /\ pc' = "interval_dsm_sum_constraint"
    /\ UNCHANGED <<err, blockClass, attrs, extraction, decision>>

\* intervals = range(m.TIMESTEPS[1], m.TIMESTEPS[-1], g.shift_interval):
\* the first timestep, the last timestep (exclusive), the interval length
dsm_sum_intervals == RangeStep(0, Last, shift_interval)

\* the timesteps balanced by the constraint that starts at `interval`
dsm_sum_timesteps(interval) ==
    IF interval + shift_interval - 1 > Last
    THEN Range(interval, Last + 1)
    ELSE Range(interval, interval + shift_interval)

dsm_sum_constraint_rule ==
    /\ pc = "interval_dsm_sum_constraint"
    /\ block' = [block EXCEPT !.dsm_sum_constraint =
                    [interval \in dsm_sum_intervals |->
                        dsm_sum_timesteps(interval)]]
    /\ pc' = "interval_built"
    /\ UNCHANGED <<err, blockClass, attrs, extraction, decision>>

\* m.flow[g.inflow, g, t] as input_output_relation fixes it
interval_flow(t) ==
    demand + Sum(dsm_up, block.input_output_relation[t].up)
           - Sum(dsm_do, block.input_output_relation[t].down)

\* the values of the decision variables satisfy every constraint built
IntervalFeasible ==
    /\ \A t \in DOMAIN block.input_output_relation : interval_flow(t) >= 0
    /\ \A t \in DOMAIN block.dsm_up_constraint :
           dsm_up[t] <= block.dsm_up_constraint[t]
    /\ \A t \in DOMAIN block.dsm_down_constraint :
           dsm_do[t] <= block.dsm_down_constraint[t]
    /\ \A i \in DOMAIN block.dsm_sum_constraint :
           Sum(dsm_up, block.dsm_sum_constraint[i]) * efficiency[1]
             = Sum(dsm_do, block.dsm_sum_constraint[i]) * efficiency[2]

IntervalUnits == Sum(dsm_up, TIMESTEPS) + Sum(dsm_do, TIMESTEPS)

\* the solver moves one decision variable of the built model up by one unit
interval_solve_dsm_up ==
    /\ pc = "interval_built"
    /\ IntervalUnits < MaxUnits
    /\ \E t \in TIMESTEPS : dsm_up' = [dsm_up EXCEPT ![t] = @ + 1]
    /\ UNCHANGED <<pc, err, blockClass, attrs, extraction, block,
                   dsm_do, dsm_do_shift,
                   dsm_do_shed, balance_dsm_do, balance_dsm_up>>

interval_solve_dsm_do ==
    /\ pc = "interval_built"
    /\ IntervalUnits < MaxUnits
    /\ \E t \in TIMESTEPS : dsm_do' = [dsm_do EXCEPT ![t] = @ + 1]
    /\ UNCHANGED <<pc, err, blockClass, attrs, extraction, block,
                   dsm_up, dsm_do_shift,
                   dsm_do_shed, balance_dsm_do, balance_dsm_up>>

(***************************************************************************)
(* SinkDSMDelayBlock._create                                               *)
(***************************************************************************)
\* self.dsm_do_shift = Var(self.dsm, m.TIMESTEPS, m.TIMESTEPS, ...),
\* self.dsm_do_shed, self.dsm_up = Var(self.dsm, m.TIMESTEPS, ...)
delay_create_vars ==
    /\ pc = "grouped"
    /\ blockClass = "SinkDSMDelayBlock"
    /\ dsm_do_shift' = [i \in TIMESTEPS \X TIMESTEPS |-> 0]
    /\ dsm_do_shed' = [t \in TIMESTEPS |-> 0]
    /\ dsm_up' = [t \in TIMESTEPS |-> 0]
    /\ pc' = "delay_shift_shed_vars"
    /\ UNCHANGED <<err, blockClass, attrs, extraction, block, dsm_do,
                   balance_dsm_do, balance_dsm_up>>

\* The timesteps a rule reaches before an index outside m.TIMESTEPS makes the
\* Var lookup raise KeyError: W[t] is the index range the rule uses at t.
ValidPrefix(W) ==
    { t \in TIMESTEPS : \A s \in 0 .. t : W[s] \subseteq TIMESTEPS }

Raises(W) == \E t \in TIMESTEPS : ~(W[t] \subseteq TIMESTEPS)

\* _shift_shed_vars_rule.  For a unit that is not shift-eligible the rule
\* reads self.dsm_do_shift[g, t], two indices into a Var declared over three
\* index sets.  What the modelling library makes of that lookup is not
\* decided by this repository: it either rejects the index (KeyError) or
\* takes it as all dsm_do_shift[g, t, .]; both outcomes are modelled.
shift_shed_vars_forced ==
    (IF ~shift_eligibility THEN {"dsm_do_shift"} ELSE {})
    \cup (IF ~shed_eligibility THEN {"dsm_do_shed"} ELSE {})

delay_shift_shed_vars_rule ==
    /\ pc = "delay_shift_shed_vars"
    /\ \/ /\ block' = [block EXCEPT !.shift_shed_vars =
                          [t \in TIMESTEPS |-> shift_shed_vars_forced]]
          /\ pc' = "delay_input_output_relation"
          /\ err' = err
       \/ /\ ~shift_eligibility
          /\ block' = block
          /\ pc' = "raised in shift_shed_vars_rule"
          /\ err' = "KeyError"
    /\ UNCHANGED <<blockClass, attrs, extraction, decision>>

\* a plausible slip: the window of the inflow looks forward only
input_output_window_forward(t) ==
    IF t <= delay_time THEN Range(t, t + delay_time + 1)
    ELSE IF delay_time < t /\ t <= Last - delay_time
         THEN Range(t, t + delay_time + 1)
    ELSE Range(t, Last + 1)

\* the three branches of _input_output_relation_rule: the first index tt of
\* dsm_do_shift[g, tt, t] runs over this range
input_output_window(t) ==
    IF t <= delay_time THEN Range(0, t + delay_time + 1)
    ELSE IF delay_time < t /\ t <= Last - delay_time
         THEN Range(t - delay_time, t + delay_time + 1)
    ELSE Range(t - delay_time, Last + 1)

delay_input_output_relation_rule ==
    /\ pc = "delay_input_output_relation"
    /\ block' = [block EXCEPT !.input_output_relation =
                    [t \in ValidPrefix([s \in TIMESTEPS |->
                                            input_output_window(s)]) |->
                        [up |-> {t}, shift |-> input_output_window(t),
                         shed |-> {t}]]]
    /\ IF Raises([s \in TIMESTEPS |-> input_output_window(s)])
       THEN pc' = "raised in input_output_relation_rule" /\ err' = "KeyError"
       ELSE pc' = "delay_dsm_updo_constraint" /\ err' = err
    /\ UNCHANGED <<blockClass, attrs, extraction, decision>>

\* a plausible slip: the last steps stop one timestep short
dsm_updo_window_short(t) ==
    IF t <= delay_time THEN Range(0, t + delay_time + 1)
    ELSE IF delay_time < t /\ t <= Last - delay_time
         THEN Range(t - delay_time, t + delay_time + 1)
    ELSE Range(t - delay_time, Last)

\* dsm_up_down_constraint_rule: the second index tt of dsm_do_shift[g, t, tt]
dsm_updo_window(t) ==
    IF t <= delay_time THEN Range(0, t + delay_time + 1)
    ELSE IF delay_time < t /\ t <= Last - delay_time
         THEN Range(t - delay_time, t + delay_time + 1)
    ELSE Range(t - delay_time, Last + 1)

dsm_up_down_constraint_rule ==
    /\ pc = "delay_dsm_updo_constraint"
    /\ block' = [block EXCEPT !.dsm_updo_constraint =
                    [t \in ValidPrefix([s \in TIMESTEPS |->
                                            dsm_updo_window(s)]) |->
                        dsm_updo_window(t)]]
    /\ IF Raises([s \in TIMESTEPS |-> dsm_updo_window(s)])
       THEN pc' = "raised in dsm_up_down_constraint_rule" /\ err' = "KeyError"
       ELSE pc' = "delay_dsm_up_constraint" /\ err' = err
    /\ UNCHANGED <<blockClass, attrs, extraction, decision>>

\* dsm_up_constraint_rule: dsm_up[g, t] <= capacity_up[t]
delay_dsm_up_constraint_rule ==
    /\ pc = "delay_dsm_up_constraint"
    /\ block' = [block EXCEPT !.dsm_up_constraint =
                    [t \in TIMESTEPS |-> capacity_up]]
    /\ pc' = "delay_dsm_do_constraint"
    /\ UNCHANGED <<err, blockClass, attrs, extraction, decision>>

\* dsm_do_constraint_rule: the first index t of dsm_do_shift[g, t, tt]
dsm_do_window(tt) ==
    IF tt <= delay_time THEN Range(0, tt + delay_time + 1)
    ELSE IF delay_time < tt /\ tt <= Last - delay_time
         THEN Range(tt - delay_time, tt + delay_time + 1)
    ELSE Range(tt - delay_time, Last + 1)

\* the timesteps that get a downward capacity constraint: every one for a
\* shift-eligible unit, none for a unit eligible for shedding only
dsm_do_constrained ==
    IF ~shed_eligibility /\ shift_eligibility THEN TIMESTEPS
    ELSE IF shed_eligibility /\ shift_eligibility THEN TIMESTEPS
    ELSE {}

\* the left-hand side holds dsm_do_shed[g, tt] only when the unit is
\* eligible for both
dsm_do_shed_term(tt) ==
    IF shed_eligibility /\ shift_eligibility THEN {tt} ELSE {}

dsm_do_constraint_rule ==
    /\ pc = "delay_dsm_do_constraint"
    /\ block' = [block EXCEPT !.dsm_do_constraint =
                    [tt \in ValidPrefix([s \in TIMESTEPS |-> dsm_do_window(s)])
                              \cap dsm_do_constrained
                        |-> [shift |-> dsm_do_window(tt),
                             shed |-> dsm_do_shed_term(tt),
                             rhs |-> capacity_down]]]
    /\ IF /\ dsm_do_constrained # {}
          /\ Raises([s \in TIMESTEPS |-> dsm_do_window(s)])
       THEN pc' = "raised in dsm_do_constraint_rule" /\ err' = "KeyError"
       ELSE pc' = "delay_C2_constraint" /\ err' = err
    /\ UNCHANGED <<blockClass, attrs, extraction, decision>>

\* c2_constraint_rule: the first index t of dsm_do_shift[g, t, tt]
C2_window(tt) ==
    IF tt <= delay_time THEN Range(0, tt + delay_time + 1)
    ELSE IF delay_time < tt /\ tt <= Last - delay_time
         THEN Range(tt - delay_time, tt + delay_time + 1)
    ELSE Range(tt - delay_time, Last + 1)

\* rhs = max(g.capacity_up[tt], g.capacity_down[tt])
C2_rhs == Max(capacity_up, capacity_down)

c2_constraint_rule ==
    /\ pc = "delay_C2_constraint"
    /\ block' = [block EXCEPT !.C2_constraint =
                    [tt \in ValidPrefix([s \in TIMESTEPS |-> C2_window(s)]) |->
                        [up |-> {tt}, shift |-> C2_window(tt),
                         shed |-> {tt}, rhs |-> C2_rhs]]]
    /\ IF Raises([s \in TIMESTEPS |-> C2_window(s)])
       THEN pc' = "raised in c2_constraint_rule" /\ err' = "KeyError"
       ELSE pc' = "delay_recovery_constraint" /\ err' = err
    /\ UNCHANGED <<blockClass, attrs, extraction, decision>>

\* recovery_constraint_rule: the timesteps whose dsm_up is summed at t
recovery_timesteps(t) ==
    IF t <= Last - recovery_time_shift
    THEN Range(t, t + recovery_time_shift)
    ELSE Range(t, Last + 1)

recovery_constraint_rule ==
    /\ pc = "delay_recovery_constraint"
    /\ block' = [block EXCEPT !.recovery_constraint =
                    IF recovery_time_shift # None
                    THEN [t \in TIMESTEPS |->
                            [timesteps |-> recovery_timesteps(t),
                             rhs |-> capacity_up * delay_time * timeincrement]]
                    ELSE Empty]
    /\ pc' = "delay_shed_limit_constraint"
    /\ UNCHANGED <<err, blockClass, attrs, extraction, decision>>

\* shed_limit_constraint_rule: the timesteps whose dsm_do_shed is summed at t
shed_limit_timesteps(t) ==
    IF t <= Last - recovery_time_shed
    THEN Range(t, t + recovery_time_shed)
    ELSE Range(t, Last + 1)

\* g.capacity_down[t] * g.shed_time * m.timeincrement[t] with shed_time None
\* is a TypeError
shed_limit_constraint_rule ==
    /\ pc = "delay_shed_limit_constraint"
    /\ IF shed_eligibility /\ shed_time = None
       THEN /\ block' = block
            /\ pc' = "raised in shed_limit_constraint_rule"
            /\ err' = "TypeError"
       ELSE /\ block' = [block EXCEPT !.shed_limit_constraint =
                    IF shed_eligibility
                    THEN [t \in TIMESTEPS |->
                            [timesteps |-> shed_limit_timesteps(t),
                             rhs |-> capacity_down * shed_time * timeincrement]]
                    ELSE Empty]
            /\ pc' = "delay_built"
            /\ err' = err
    /\ UNCHANGED <<blockClass, attrs, extraction, decision>>

\* sum of dsm_do_shift[g, t, tt] for t in W
ShiftInto(W, tt) == Sum(dsm_do_shift, { <<t, tt>> : t \in W })

\* sum of dsm_do_shift[g, t, tt] for tt in W
ShiftFrom(t, W) == Sum(dsm_do_shift, { <<t, tt>> : tt \in W })

\* m.flow[g.inflow, g, t] as input_output_relation fixes it
delay_flow(t) ==
    LET c == block.input_output_relation[t]
    IN  demand + Sum(dsm_up, c.up) - ShiftInto(c.shift, t)
               - Sum(dsm_do_shed, c.shed)

\* the values of the decision variables respect every inequality built
DelayWithinBounds ==
    /\ \A t \in DOMAIN block.input_output_relation : delay_flow(t) >= 0
    /\ \A t \in DOMAIN block.dsm_up_constraint :
         dsm_up[t] <= block.dsm_up_constraint[t]
    /\ \A tt \in DOMAIN block.dsm_do_constraint :
         LET c == block.dsm_do_constraint[tt]
         IN  ShiftInto(c.shift, tt) + Sum(dsm_do_shed, c.shed) <= c.rhs
    /\ \A tt \in DOMAIN block.C2_constraint :
         LET c == block.C2_constraint[tt]
         IN  Sum(dsm_up, c.up) + ShiftInto(c.shift, tt)
               + Sum(dsm_do_shed, c.shed) <= c.rhs
    /\ \A t \in DOMAIN block.recovery_constraint :
         LET c == block.recovery_constraint[t]
         IN  Sum(dsm_up, c.timesteps) <= c.rhs
    /\ \A t \in DOMAIN block.shed_limit_constraint :
         LET c == block.shed_limit_constraint[t]
         IN  Sum(dsm_do_shed, c.timesteps) <= c.rhs

\* the values of the decision variables satisfy every equation built
DelayBalanced ==
    /\ \A t \in DOMAIN block.shift_shed_vars :
         /\ "dsm_do_shift" \in block.shift_shed_vars[t]
               => \A tt \in TIMESTEPS : dsm_do_shift[<<t, tt>>] = 0
         /\ "dsm_do_shed" \in block.shift_shed_vars[t] => dsm_do_shed[t] = 0
    /\ \A t \in DOMAIN block.dsm_updo_constraint :
         dsm_up[t] * efficiency[1]
           = ShiftFrom(t, block.dsm_updo_constraint[t]) * efficiency[2]

\* the values of the decision variables satisfy every constraint built
DelayFeasible == DelayWithinBounds /\ DelayBalanced

DelayUnits ==
    Sum(dsm_up, TIMESTEPS) + Sum(dsm_do_shed, TIMESTEPS)
      + Sum(dsm_do_shift, TIMESTEPS \X TIMESTEPS)

\* The solver moves one decision variable of the built model up by one
\* unit, as long as no inequality of the model is exceeded (the variables
\* only grow, so every feasible point within MaxUnits is reached).  Of
\* dsm_do_shift it moves the entries that occur in a constraint; the others
\* occur in the cost alone.
delay_solve_dsm_up ==
    /\ pc = "delay_built"
    /\ DelayUnits < MaxUnits
    /\ \E t \in TIMESTEPS : dsm_up' = [dsm_up EXCEPT ![t] = @ + 1]
    /\ UNCHANGED <<pc, err, blockClass, attrs, extraction, block,
                   dsm_do, dsm_do_shift,
                   dsm_do_shed, balance_dsm_do, balance_dsm_up>>
    /\ DelayWithinBounds'

delay_solve_dsm_do_shift ==
    /\ pc = "delay_built"
    /\ DelayUnits < MaxUnits
    /\ \E t \in DOMAIN block.dsm_updo_constraint :
          \E tt \in block.dsm_updo_constraint[t] :
             dsm_do_shift' = [dsm_do_shift EXCEPT ![<<t, tt>>] = @ + 1]
    /\ UNCHANGED <<pc, err, blockClass, attrs, extraction, block,
                   dsm_do, dsm_up,
                   dsm_do_shed, balance_dsm_do, balance_dsm_up>>
    /\ DelayWithinBounds'

delay_solve_dsm_do_shed ==
    /\ pc = "delay_built"
    /\ DelayUnits < MaxUnits
    /\ \E t \in TIMESTEPS : dsm_do_shed' = [dsm_do_shed EXCEPT ![t] = @ + 1]
    /\ UNCHANGED <<pc, err, blockClass, attrs, extraction, block,
                   dsm_do, dsm_up,
                   dsm_do_shift, balance_dsm_do, balance_dsm_up>>
    /\ DelayWithinBounds'

(***************************************************************************)
(* SinkDR.__init__ (DLR modules)                                           *)
(***************************************************************************)
DLRModules == {"DLR_no_shed", "DLR_shifting_classes"}

\* a plausible slip: n_yearLimit_shed is demanded from every unit
SinkDR_init_shed_limit_always ==
    IF ActivateYearLimit /\ n_yearLimit_shift = None THEN "ValueError"
    ELSE IF ActivateDayLimit /\ t_dayLimit = None THEN "ValueError"
    ELSE IF n_yearLimit_shed = None THEN "ValueError"
    ELSE "constructed"

\* the parameter checks of SinkDR.__init__ in the no_shed module
SinkDR_init_no_shed ==
    IF ActivateYearLimit /\ n_yearLimit_shift = None THEN "ValueError"
    ELSE IF ActivateDayLimit /\ t_dayLimit = None THEN "ValueError"
    ELSE IF shed_eligibility /\ n_yearLimit_shed = None THEN "ValueError"
    ELSE "constructed"

\* the parameter checks of SinkDR.__init__ in the shifting_classes module
SinkDR_init_shifting_classes ==
    IF ActivateYearLimit /\ n_yearLimit_shift = None THEN "ValueError"
    ELSE IF ActivateDayLimit /\ t_dayLimit = None THEN "ValueError"
    ELSE IF shed_eligibility /\ n_yearLimit_shed = None THEN "ValueError"
    ELSE "constructed"

SinkDR_init ==
    /\ pc = "call"
    /\ LET r == IF module = "DLR_no_shed" THEN SinkDR_init_no_shed
                ELSE SinkDR_init_shifting_classes
       IN  /\ err' = (IF r = "ValueError" THEN "ValueError" ELSE "none")
           /\ pc' = (IF r = "ValueError" THEN "raised in __init__"
                                         ELSE "constructed")
    /\ UNCHANGED <<blockClass, attrs, extraction, block, decision>>

(***************************************************************************)
(* SinkDRBlock._create (no_shed module)                                    *)
(***************************************************************************)
\* SinkDR.constraint_group of a unit constructed without investment
dr_constraint_group ==
    /\ pc = "constructed"
    /\ module = "DLR_no_shed"
    /\ blockClass' = "SinkDRBlock"
    /\ pc' = "grouped"
    /\ UNCHANGED <<err, attrs, extraction, block, decision>>

\* self.dsm_do_shift, self.dsm_up, self.balance_dsm_do, self.balance_dsm_up
\* = Var(self.DR, m.TIMESTEPS, initialize=0, within=NonNegativeReals)
dr_create_vars ==
    /\ pc = "grouped"
    /\ blockClass = "SinkDRBlock"
    /\ dsm_do_shift' = [t \in TIMESTEPS |-> 0]
    /\ dsm_up' = [t \in TIMESTEPS |-> 0]
    /\ balance_dsm_do' = [t \in TIMESTEPS |-> 0]
    /\ balance_dsm_up' = [t \in TIMESTEPS |-> 0]
    /\ pc' = "dr_shift_shed_vars"
    /\ UNCHANGED <<err, blockClass, attrs, extraction, block,
                   dsm_do, dsm_do_shed>>

\* _shift_shed_vars_rule: dsm_do_shift[g, t] == 0 for a unit that is not
\* shift-eligible
dr_shift_shed_vars_rule ==
    /\ pc = "dr_shift_shed_vars"
    /\ block' = [block EXCEPT !.shift_shed_vars =
                    IF ~shift_eligibility
                    THEN [t \in TIMESTEPS |-> {"dsm_do_shift"}]
                    ELSE Empty]
    /\ pc' = "dr_input_output_relation"
    /\ UNCHANGED <<err, blockClass, attrs, extraction, decision>>

\* flow == demand + dsm_up + balance_dsm_do - dsm_do_shift - balance_dsm_up
dr_input_output_relation_rule ==
    /\ pc = "dr_input_output_relation"
    /\ block' = [block EXCEPT !.input_output_relation =
                    [t \in TIMESTEPS |-> [plus |-> {t}, minus |-> {t}]]]
    /\ pc' = "dr_capacity_balance_red"
    /\ UNCHANGED <<err, blockClass, attrs, extraction, decision>>

\* the timesteps capacity_balance_red_rule / capacity_balance_inc_rule add
\* a constraint for: all from delay_time on and the first one for a
\* shift-eligible unit, all for a unit that is not
capacity_balance_timesteps ==
    IF shift_eligibility
    THEN { t \in TIMESTEPS : t >= delay_time \/ t = 0 }
    ELSE TIMESTEPS

\* the right-hand side at t: the shift of t - delay_time, or zero
capacity_balance_source(t) ==
    IF shift_eligibility /\ t >= delay_time THEN {t - delay_time} ELSE {}

capacity_balance_red_rule ==
    /\ pc = "dr_capacity_balance_red"
    /\ block' = [block EXCEPT !.capacity_balance_red =
                    [t \in capacity_balance_timesteps |->
                        capacity_balance_source(t)]]
    /\ pc' = "dr_capacity_balance_inc"
    /\ UNCHANGED <<err, blockClass, attrs, extraction, decision>>

capacity_balance_inc_rule ==
    /\ pc = "dr_capacity_balance_inc"
    /\ block' = [block EXCEPT !.capacity_balance_inc =
                    [t \in capacity_balance_timesteps |->
                        capacity_balance_source(t)]]
    /\ pc' = "dr_availability_red"
    /\ UNCHANGED <<err, blockClass, attrs, extraction, decision>>

\* dsm_do_shift[g, t] + balance_dsm_up[g, t] <= capacity_down[t]
availability_red_rule ==
    /\ pc = "dr_availability_red"
    /\ block' = [block EXCEPT !.availability_red =
                    [t \in TIMESTEPS |-> capacity_down]]
    /\ pc' = "dr_availability_inc"
    /\ UNCHANGED <<err, blockClass, attrs, extraction, decision>>

\* dsm_up[g, t] + balance_dsm_do[g, t] <= capacity_up[t]
availability_inc_rule ==
    /\ pc = "dr_availability_inc"
    /\ block' = [block EXCEPT !.availability_inc =
                    [t \in TIMESTEPS |-> capacity_up]]
    /\ pc' = "dr_storage_red"
    /\ UNCHANGED <<err, blockClass, attrs, extraction, decision>>

\* dr_storage_red_rule / dr_storage_inc_rule: the form of the level
\* equation at t: a transition from t - 1 for t > 0, else the level set to
\* the shift of the first timestep
dr_storage_form(t) == IF t > 0 THEN "transition" ELSE "first"

dr_storage_red_rule ==
    /\ pc = "dr_storage_red"
    /\ block' = [block EXCEPT !.dr_storage_red =
                    [t \in TIMESTEPS |-> dr_storage_form(t)]]
    /\ pc' = "dr_storage_inc"
    /\ UNCHANGED <<err, blockClass, attrs, extraction, decision>>

dr_storage_inc_rule ==
    /\ pc = "dr_storage_inc"
    /\ block' = [block EXCEPT !.dr_storage_inc =
                    [t \in TIMESTEPS |-> dr_storage_form(t)]]
    /\ pc' = "dr_storage_limit_red"
    /\ UNCHANGED <<err, blockClass, attrs, extraction, decision>>

\* dsm_do_level[g, t] <= capacity_down_mean * shift_time
dr_storage_limit_red_rule ==
    /\ pc = "dr_storage_limit_red"
    /\ block' = [block EXCEPT !.dr_storage_limit_red =
                    [t \in TIMESTEPS |-> capacity_down * shift_time]]
    /\ pc' = "dr_storage_limit_inc"
    /\ UNCHANGED <<err, blockClass, attrs, extraction, decision>>

\* dsm_up_level[g, t] <= capacity_up_mean * shift_time
dr_storage_limit_inc_rule ==
    /\ pc = "dr_storage_limit_inc"
    /\ block' = [block EXCEPT !.dr_storage_limit_inc =
                    [t \in TIMESTEPS |-> capacity_up * shift_time]]
    /\ pc' = "dr_logical_constraint"
    /\ UNCHANGED <<err, blockClass, attrs, extraction, decision>>

\* dr_logical_constraint_rule, after the four year and day limit rules,
\* which add nothing for a unit with ActivateYearLimit and ActivateDayLimit
\* off: the four shift variables together <= max(capacity_down, capacity_up)
dr_logical_constraint_rule ==
    /\ pc = "dr_logical_constraint"
    /\ ~ActivateYearLimit /\ ~ActivateDayLimit
    /\ block' = [block EXCEPT !.dr_logical_constraint =
                    IF addition
                    THEN [t \in TIMESTEPS |-> Max(capacity_down, capacity_up)]
                    ELSE Empty]
    /\ pc' = "dr_built"
    /\ UNCHANGED <<err, blockClass, attrs, extraction, decision>>

\* m.flow[g.inflow, g, t] as input_output_relation fixes it
dr_flow(t) ==
    LET c == block.input_output_relation[t]
    IN  demand + Sum(dsm_up, c.plus) + Sum(balance_dsm_do, c.plus)
               - Sum(dsm_do_shift, c.minus) - Sum(balance_dsm_up, c.minus)

\* dsm_do_level[g, t] times the denominator of the efficiency, as the
\* equations of dr_storage_red fix it
RECURSIVE dsm_do_level(_)
dsm_do_level(t) ==
    IF block.dr_storage_red[t] = "first"
    THEN timeincrement * dsm_do_shift[t] * efficiency[2]
    ELSE dsm_do_level(t - 1)
           + timeincrement * (dsm_do_shift[t] * efficiency[2]
                                - balance_dsm_do[t] * efficiency[1])

\* dsm_up_level[g, t] times the denominator of the efficiency, as the
\* equations of dr_storage_inc fix it
RECURSIVE dsm_up_level(_)
dsm_up_level(t) ==
    IF block.dr_storage_inc[t] = "first"
    THEN timeincrement * dsm_up[t] * efficiency[2]
    ELSE dsm_up_level(t - 1)
           + timeincrement * (dsm_up[t] * efficiency[1]
                                - balance_dsm_up[t] * efficiency[2])

\* the values of the decision variables respect every upper bound built
DRWithinBounds ==
    /\ \A t \in DOMAIN block.availability_red :
         dsm_do_shift[t] + balance_dsm_up[t] <= block.availability_red[t]
    /\ \A t \in DOMAIN block.availability_inc :
         dsm_up[t] + balance_dsm_do[t] <= block.availability_inc[t]
    /\ \A t \in DOMAIN block.dr_logical_constraint :
         dsm_up[t] + balance_dsm_do[t] + dsm_do_shift[t] + balance_dsm_up[t]
           <= block.dr_logical_constraint[t]

\* the values of the decision variables satisfy every constraint built;
\* flow and the two levels are NonNegativeReals
DRFeasible ==
    /\ DRWithinBounds
    /\ \A t \in DOMAIN block.shift_shed_vars : dsm_do_shift[t] = 0
    /\ \A t \in DOMAIN block.input_output_relation : dr_flow(t) >= 0
    /\ \A t \in DOMAIN block.capacity_balance_red :
         balance_dsm_do[t] * efficiency[1]
           = Sum(dsm_do_shift, block.capacity_balance_red[t]) * efficiency[2]
    /\ \A t \in DOMAIN block.capacity_balance_inc :
         balance_dsm_up[t] * efficiency[2]
           = Sum(dsm_up, block.capacity_balance_inc[t]) * efficiency[1]
    /\ \A t \in DOMAIN block.dr_storage_red : dsm_do_level(t) >= 0
    /\ \A t \in DOMAIN block.dr_storage_inc : dsm_up_level(t) >= 0
    /\ \A t \in DOMAIN block.dr_storage_limit_red :
         dsm_do_level(t) <= block.dr_storage_limit_red[t] * efficiency[2]
    /\ \A t \in DOMAIN block.dr_storage_limit_inc :
         dsm_up_level(t) <= block.dr_storage_limit_inc[t] * efficiency[2]

DRUnits ==
    Sum(dsm_up, TIMESTEPS) + Sum(dsm_do_shift, TIMESTEPS)
      + Sum(balance_dsm_do, TIMESTEPS) + Sum(balance_dsm_up, TIMESTEPS)

\* The solver moves one decision variable of the built model up by one
\* unit, as long as no upper bound of the model is exceeded.
dr_solve_dsm_do_shift ==
    /\ pc = "dr_built"
    /\ DRUnits < MaxUnits
    /\ \E t \in TIMESTEPS : dsm_do_shift' = [dsm_do_shift EXCEPT ![t] = @ + 1]
    /\ UNCHANGED <<pc, err, blockClass, attrs, extraction, block,
                   dsm_do, dsm_up,
                   dsm_do_shed, balance_dsm_do, balance_dsm_up>>
    /\ DRWithinBounds'

dr_solve_dsm_up ==
    /\ pc = "dr_built"
    /\ DRUnits < MaxUnits
    /\ \E t \in TIMESTEPS : dsm_up' = [dsm_up EXCEPT ![t] = @ + 1]
    /\ UNCHANGED <<pc, err, blockClass, attrs, extraction, block,
                   dsm_do, dsm_do_shift,
                   dsm_do_shed, balance_dsm_do, balance_dsm_up>>
    /\ DRWithinBounds'

dr_solve_balance_dsm_do ==
    /\ pc = "dr_built"
    /\ DRUnits < MaxUnits
    /\ \E t \in TIMESTEPS :
          balance_dsm_do' = [balance_dsm_do EXCEPT ![t] = @ + 1]
    /\ UNCHANGED <<pc, err, blockClass, attrs, extraction, block,
                   dsm_do, dsm_up,
                   dsm_do_shift, dsm_do_shed, balance_dsm_up>>
    /\ DRWithinBounds'

dr_solve_balance_dsm_up ==
    /\ pc = "dr_built"
    /\ DRUnits < MaxUnits
    /\ \E t \in TIMESTEPS :
          balance_dsm_up' = [balance_dsm_up EXCEPT ![t] = @ + 1]
    /\ UNCHANGED <<pc, err, blockClass, attrs, extraction, block,
                   dsm_do, dsm_up,
                   dsm_do_shift, dsm_do_shed, balance_dsm_do>>
    /\ DRWithinBounds'

(***************************************************************************)
(* extract_results (plotting.py, INREC_examples/plotting.py,               *)
(* oemof_PR/plotting.py)                                                   *)
(*                                                                         *)
(* A DataFrame is a function from column labels to series, a series a      *)
(* function from the rows 1 .. NRows to numbers.  Of the frame returned     *)
(* the demand-response columns are kept; the generation columns are plain  *)
(* copies of the bus flows.                                                *)
(***************************************************************************)
PlottingModules ==
    {"plotting", "INREC_examples/plotting", "oemof_PR/plotting"}

Rows == 1 .. NRows
NoFrame == Empty

\* the state of a run in which extract_results is never called
NoExtraction ==
    /\ approach = "none"
    /\ use_no_shed = FALSE
    /\ dsm_seqs = NoFrame
    /\ rename_inplace = "self"
    /\ df_model = NoFrame

\* dsm_seqs.iloc[:, p] with python's index: a negative p counts from the end
iloc(p) ==
    LET n == Cardinality(DOMAIN dsm_seqs)
    IN  dsm_seqs[IF p < 0 THEN n + p ELSE p].val

\* dsm_seqs.iloc[:, P].sum(axis=1) over the column positions P
iloc_sum(P) == [i \in Rows |-> Sum([c \in P |-> dsm_seqs[c].val[i]], P)]

\* dsm_seqs.iloc[:, dsm_seqs.columns.str[1] == name].sum(axis=1)
sum_by_name(name) ==
    iloc_sum({ c \in DOMAIN dsm_seqs : dsm_seqs[c].name = name })

\* a - b and a.add(b) of two series
series_sub(a, b) == [i \in Rows |-> a[i] - b[i]]
series_add(a, b) == [i \in Rows |-> a[i] + b[i]]

RECURSIVE cumsum_at(_, _)
cumsum_at(a, i) == IF i = 0 THEN 0 ELSE cumsum_at(a, i - 1) + a[i]

\* a.cumsum()
cumsum(a) == [i \in Rows |-> cumsum_at(a, i)]

\* pd.Series(index=dsm_seqs.index): a series without name and values
empty_series == "0" :> [i \in Rows |-> "NaN"]

\* df_dsmdo_shift, df_dsmup, df_dsm_tot, df_dsm_acum as every variant
\* renames and concatenates them
dsm_columns(dsmdo_shift, dsmup) ==
    ("dsm_do_shift" :> dsmdo_shift) @@ ("dsm_up" :> dsmup)
      @@ ("dsm_tot" :> series_sub(dsmdo_shift, dsmup))
      @@ ("dsm_acum" :> cumsum(series_sub(dsmdo_shift, dsmup)))

\* dict_map_idx['with_shed'] of plotting.py
dict_map_idx_with_shed ==
    [ dsmdo_shift |-> {4, 6}, dsmdo_shed |-> {5}, dsmup |-> {3, 7},
      dsmdo_orig |-> 6, dsmup_orig |-> 7, dsmdo_bal |-> 3, dsmup_bal |-> 5,
      dsmslup |-> 2, dsmsldo |-> 1 ]

\* dict_map_idx['wo_shed'] of plotting.py: the keys of 'with_shed' zipped
\* with vals_wo_shed
dict_map_idx_wo_shed ==
    [ dsmdo_shift |-> {2, 4}, dsmdo_shed |-> {}, dsmup |-> {1, 5},
      dsmdo_orig |-> 4, dsmup_orig |-> 5, dsmdo_bal |-> 1, dsmup_bal |-> 2,
      dsmslup |-> 6, dsmsldo |-> 3 ]

\* dict_map_idx[key]
dict_map_idx ==
    IF ~use_no_shed THEN dict_map_idx_with_shed ELSE dict_map_idx_wo_shed

\* the frame plotting.py returns for approach "DIW"
plotting_DIW ==
    dsm_columns(iloc_sum(1 .. (Cardinality(DOMAIN dsm_seqs) - 3)), iloc(0 - 1))
      @@ ("dsm_do_shed" :> iloc(0 - 2))

\* the frame plotting.py returns for the approaches "IER" and "TUD"
plotting_IER_TUD ==
    dsm_columns(iloc(2), iloc(0 - 1)) @@ ("dsm_do_shed" :> iloc(1))
      @@ (IF approach = "TUD" THEN "dsm_sl" :> iloc(0 - 2) ELSE NoFrame)

\* the frame plotting.py returns for approach "DLR"
plotting_DLR ==
    LET idx == dict_map_idx
    IN  dsm_columns(iloc_sum(idx.dsmdo_shift), iloc_sum(idx.dsmup))
          @@ (IF idx.dsmdo_shed = {} THEN NoFrame
              ELSE "dsm_do_shed" :> iloc_sum(idx.dsmdo_shed))
          @@ ("dsm_do_orig" :> iloc(idx.dsmdo_orig))
          @@ ("dsm_up_orig" :> iloc(idx.dsmup_orig))
          @@ ("balance_dsm_do_orig" :> iloc(idx.dsmdo_bal))
          @@ ("balance_dsm_up_orig" :> iloc(idx.dsmup_bal))
          @@ ("dsm_sl_up" :> iloc(idx.dsmslup))
          @@ ("dsm_sl_do" :> iloc(idx.dsmsldo))

\* extract_results of plotting.py
plotting_extract_results ==
    /\ pc = "call"
    /\ module = "plotting"
    /\ IF approach = "DIW"
       THEN df_model' = plotting_DIW /\ pc' = "returned" /\ err' = err
       ELSE IF approach = "IER" \/ approach = "TUD"
       THEN df_model' = plotting_IER_TUD /\ pc' = "returned" /\ err' = err
       ELSE IF approach = "DLR"
       THEN df_model' = plotting_DLR /\ pc' = "returned" /\ err' = err
       ELSE /\ df_model' = df_model
            /\ pc' = "raised in extract_results"
            /\ err' = "ValueError"
    /\ UNCHANGED <<blockClass, attrs, block, decision,
                   approach, use_no_shed, dsm_seqs, rename_inplace>>

\* the additional columns both name-based variants build for "DLR", and the
\* aggregates they replace dsm_do_shift and dsm_up with
by_name_DLR ==
    LET dsmdo_orig == sum_by_name("dsm_do_shift")
        dsmup_orig == sum_by_name("dsm_up")
        dsmdo_bal == sum_by_name("balance_dsm_do")
        dsmup_bal == sum_by_name("balance_dsm_up")
    IN  dsm_columns(series_add(dsmdo_orig, dsmup_bal),
                    series_add(dsmup_orig, dsmdo_bal))
          @@ ("dsm_do_orig" :> dsmdo_orig) @@ ("dsm_up_orig" :> dsmup_orig)
          @@ ("balance_dsm_do" :> dsmdo_bal)
          @@ ("balance_dsm_up" :> dsmup_bal)
          @@ ("dsm_sl_do" :> sum_by_name("dsm_do_level"))
          @@ ("dsm_sl_up" :> sum_by_name("dsm_up_level"))

\* the frame INREC_examples/plotting.py returns
INREC_df_model ==
    (IF approach = "DLR" THEN by_name_DLR
     ELSE dsm_columns(sum_by_name("dsm_do_shift"), sum_by_name("dsm_up"))
            @@ (IF approach = "TUD" THEN "dsm_sl" :> sum_by_name("dsm_sl")
                ELSE NoFrame))
      @@ (IF ~(approach = "DLR" /\ use_no_shed)
          THEN "dsm_do_shed" :> sum_by_name("dsm_do_shed")
          ELSE empty_series)

\* extract_results of INREC_examples/plotting.py.  Every series is bound
\* to the value of rename(name, inplace=True); where that is None, the
\* first use of a series fails: .copy() of None for "TUD" and "DLR", None
\* minus None for anything else.
INREC_extract_results ==
    /\ pc = "call"
    /\ module = "INREC_examples/plotting"
    /\ IF rename_inplace = "None"
       THEN /\ df_model' = df_model
            /\ pc' = "raised in extract_results"
            /\ err' = (IF approach = "TUD" \/ approach = "DLR"
                       THEN "AttributeError" ELSE "TypeError")
       ELSE df_model' = INREC_df_model /\ pc' = "returned" /\ err' = err
    /\ UNCHANGED <<blockClass, attrs, block, decision,
                   approach, use_no_shed, dsm_seqs, rename_inplace>>

\* the frame oemof_PR/plotting.py returns
PR_df_model ==
    (IF approach = "DLR" THEN by_name_DLR
     ELSE dsm_columns(sum_by_name("dsm_do_shift"), sum_by_name("dsm_up")))
      @@ ("dsm_do_shed" :> sum_by_name("dsm_do_shed"))

\* extract_results of oemof_PR/plotting.py (invest and normalized off)
PR_extract_results ==
    /\ pc = "call"
    /\ module = "oemof_PR/plotting"
    /\ IF rename_inplace = "None"
       THEN /\ df_model' = df_model
            /\ pc' = "raised in extract_results"
            /\ err' = (IF approach = "DLR"
                       THEN "AttributeError" ELSE "TypeError")
       ELSE df_model' = PR_df_model /\ pc' = "returned" /\ err' = err
    /\ UNCHANGED <<blockClass, attrs, block, decision,
                   approach, use_no_shed, dsm_seqs, rename_inplace>>

(***************************************************************************)
(* Properties of SinkDSM.constraint_group (checked under SpecGroup)        *)
(***************************************************************************)
Called == pc # "constructed"
Raised(e) == err = e /\ blockClass = "none"

EligibilityChecksPass ==
    /\ shed_eligibility \/ shift_eligibility
    /\ shed_eligibility => recovery_time_shed # None

\* C1: constraint_group selects the block from `method`: the interval block
\* when method is 'interval' and shift_interval is set, the delay block when
\* method is 'delay', delay_time is set and the eligibility checks pass, and
\* a ValueError without a block in every other case.
C1_BlockSelectedByMethod ==
    Called =>
      /\ blockClass = "SinkDSMIntervalBlock"
           <=> (method = "interval" /\ shift_interval # None)
      /\ blockClass = "SinkDSMDelayBlock"
           <=> (method = "delay" /\ delay_time # None /\ EligibilityChecksPass)
      /\ (method = "interval" /\ shift_interval = None) => Raised("ValueError")
      /\ (method = "delay" /\ delay_time = None) => Raised("ValueError")
      /\ method \notin {"delay", "interval"} => Raised("ValueError")
      /\ blockClass = "none" <=> err = "ValueError"
      /\ blockClass \in {"none", "SinkDSMIntervalBlock", "SinkDSMDelayBlock"}

\* the interval method without a shift_interval has been rejected
C1_Witness ==
    /\ Called
    /\ method = "interval" /\ shift_interval = None
    /\ delay_time # None
    /\ Raised("ValueError")

\* C2: for method 'delay' with delay_time set, a ValueError is raised when
\* neither eligibility flag is set and when shedding is allowed without
\* recovery_time_shed; the delay block is returned exactly when one flag is
\* set and (shedding is off or recovery_time_shed is set).  For method
\* 'interval' the outcome depends on shift_interval alone.
C2_DelayEligibilityChecked ==
    Called =>
      /\ (method = "delay" /\ delay_time # None) =>
           /\ (~shed_eligibility /\ ~shift_eligibility) => Raised("ValueError")
           /\ (shed_eligibility /\ recovery_time_shed = None)
                => Raised("ValueError")
           /\ blockClass = "SinkDSMDelayBlock"
                <=> /\ shed_eligibility \/ shift_eligibility
                    /\ ~shed_eligibility \/ recovery_time_shed # None
      /\ (method = "interval" /\ shift_interval # None)
           => blockClass = "SinkDSMIntervalBlock"
      /\ (method = "interval" /\ shift_interval = None)
           => Raised("ValueError")

\* a delay unit allowed to shed without recovery_time_shed has been rejected
C2_Witness ==
    /\ Called
    /\ method = "delay" /\ delay_time # None
    /\ shed_eligibility /\ shift_eligibility
    /\ recovery_time_shed = None
    /\ Raised("ValueError")

(***************************************************************************)
(* Properties of SinkDSMIntervalBlock (checked under SpecInterval)         *)
(***************************************************************************)
\* the balance windows that contain timestep t
WindowsOf(t) ==
    { i \in DOMAIN block.dsm_sum_constraint : t \in block.dsm_sum_constraint[i] }

\* C4: the balance windows are [0, tau-1], [tau, 2*tau-1], ..., only the
\* last possibly shorter, every timestep of the horizon (the last included)
\* lies in exactly one of them, and so every feasible solution balances
\* efficiency * sum(dsm_up) against sum(dsm_do) over the whole horizon.
C4_WindowsPartitionHorizon ==
    pc = "interval_built" =>
      /\ \A i \in DOMAIN block.dsm_sum_constraint :
           /\ i % shift_interval = 0
           /\ block.dsm_sum_constraint[i]
                = i .. Min(i + shift_interval - 1, Last)
      /\ \A t \in TIMESTEPS : Cardinality(WindowsOf(t)) = 1
      /\ IntervalFeasible =>
           efficiency[1] * Sum(dsm_up, TIMESTEPS)
             = efficiency[2] * Sum(dsm_do, TIMESTEPS)

(***************************************************************************)
(* Properties of SinkDSMDelayBlock's constraints (checked under SpecDelay) *)
(***************************************************************************)
\* the symmetric window around t, clipped at the first and last timestep
ClippedWindow(t) ==
    { tt \in TIMESTEPS : tt - t <= delay_time /\ t - tt <= delay_time }

InputOutputRan ==
    pc \notin {"constructed", "raised in constraint_group", "grouped",
               "delay_shift_shed_vars", "raised in shift_shed_vars_rule",
               "delay_input_output_relation"}

UpDownRan ==
    /\ InputOutputRan
    /\ pc \notin {"raised in input_output_relation_rule",
                  "delay_dsm_updo_constraint"}

\* C5: on a horizon of at least 2 * delay_time + 1 timesteps the upward
\* shift of every timestep t is compensated over exactly the timesteps tt
\* of the horizon with |tt - t| <= delay_time.
C5_CompensationWindowClipped ==
    (UpDownRan /\ horizon >= 2 * delay_time + 1) =>
      \A t \in TIMESTEPS :
        /\ t \in DOMAIN block.dsm_updo_constraint
        /\ block.dsm_updo_constraint[t] = ClippedWindow(t)

\* a built compensation constraint with timesteps in each of the three
\* branches (first steps, main case, last steps)
C5_Witness ==
    /\ pc = "delay_built"
    /\ horizon > 2 * delay_time + 1
    /\ block.dsm_updo_constraint[0] = 0 .. delay_time
    /\ block.dsm_updo_constraint[Last] = (Last - delay_time) .. Last

IsChain(a, m, b) ==
    /\ dsm_up = [t \in TIMESTEPS |-> IF t \in {a, m} THEN 1 ELSE 0]
    /\ dsm_do_shift = [i \in TIMESTEPS \X TIMESTEPS |->
                          IF i \in {<<a, m>>, <<m, b>>} THEN 1 ELSE 0]
    /\ dsm_do_shed = [t \in TIMESTEPS |-> 0]

Chained(a, m, b) ==
    /\ pc = "delay_built"
    /\ a < m /\ m < b
    /\ m - a <= delay_time /\ b - m <= delay_time /\ b - a > delay_time
    /\ IsChain(a, m, b)

\* C8: the delay block admits solutions that shift demand further than
\* delay_time: with up and down active together at an intermediate
\* timestep m, the load rises at a and falls at b, |b - a| > delay_time,
\* while the inflow at m equals the demand.
C8_ChainedShiftFeasible ==
    \A a, m, b \in TIMESTEPS :
      (Chained(a, m, b) /\ shift_eligibility /\ efficiency = <<1, 1>>) =>
        /\ DelayFeasible
        /\ delay_flow(a) = demand + 1
        /\ delay_flow(m) = demand
        /\ delay_flow(b) = demand - 1

C8_Witness ==
    \E a, m, b \in TIMESTEPS :
      /\ Chained(a, m, b)
      /\ efficiency = <<1, 1>>
      /\ DelayFeasible
      /\ delay_flow(a) > demand /\ delay_flow(b) < demand
      /\ \A t \in TIMESTEPS : (a < t /\ t < b) => delay_flow(t) = demand

(***************************************************************************)
(* Sets the specifications draw inputs from                               *)
(***************************************************************************)
Efficiencies == {<<1, 1>>, <<1, 2>>}
OrNone(S) == S \cup {None}

(***************************************************************************)
(* Properties of SinkDR.__init__ (checked under SpecSinkDR)                *)
(***************************************************************************)
\* one of the three limit parameters is demanded and missing
LimitParameterMissing ==
    \/ ActivateYearLimit /\ n_yearLimit_shift = None
    \/ ActivateDayLimit /\ t_dayLimit = None
    \/ shed_eligibility /\ n_yearLimit_shed = None

\* C3: SinkDR.__init__ of both DLR modules raises ValueError exactly when
\* ActivateYearLimit is set without n_yearLimit_shift, ActivateDayLimit is
\* set without t_dayLimit, or shed_eligibility is set without
\* n_yearLimit_shed; in every other case the unit is constructed.
C3_InitValidatesLimits ==
    (module \in DLRModules /\ pc \in {"constructed", "raised in __init__"})
        => /\ (err = "ValueError") <=> LimitParameterMissing
           /\ (pc = "constructed") <=> ~LimitParameterMissing

\* a unit that cannot shed load is constructed without n_yearLimit_shed
C3_Witness ==
    /\ module \in DLRModules
    /\ pc = "constructed"
    /\ ~shed_eligibility /\ n_yearLimit_shed = None
    /\ ActivateYearLimit /\ n_yearLimit_shift # None

(***************************************************************************)
(* Properties of SinkDRBlock's solutions (checked under SpecDRBlock)       *)
(***************************************************************************)
\* C9: in every solution of a SinkDRBlock, for a shift-eligible unit with
\* delay_time L, balance_dsm_do[t] = dsm_do_shift[t-L] / efficiency and
\* balance_dsm_up[t] = dsm_up[t-L] * efficiency when t >= L, and both
\* balancing variables are 0 when t < L; for a unit that is not
\* shift-eligible both are 0 at every t.
C9_BalancingFollowsDelay ==
    (pc = "dr_built" /\ DRFeasible)
        => \A t \in TIMESTEPS :
             IF shift_eligibility /\ t >= delay_time
             THEN /\ balance_dsm_do[t] * efficiency[1]
                       = dsm_do_shift[t - delay_time] * efficiency[2]
                  /\ balance_dsm_up[t] * efficiency[2]
                       = dsm_up[t - delay_time] * efficiency[1]
             ELSE balance_dsm_do[t] = 0 /\ balance_dsm_up[t] = 0

Approaches == {"DIW", "IER", "DLR", "TUD"}

\* C11: extract_results of plotting.py, INREC_examples/plotting.py and
\* oemof_PR/plotting.py accepts only the approaches 'DIW', 'IER', 'DLR' and
\* 'TUD': with any other approach it raises ValueError and returns no
\* DataFrame, with each of the four it returns a DataFrame and raises no
\* ValueError (stated for the runs in which an in-place rename hands the
\* series back, the only ones in which the two variants return at all).
C11_ApproachValidated ==
    (module \in PlottingModules /\ pc # "call" /\ rename_inplace = "self")
        => IF approach \in Approaches
           THEN pc = "returned" /\ err # "ValueError" /\ df_model # NoFrame
           ELSE err = "ValueError" /\ pc # "returned" /\ df_model = NoFrame

\* the balancing column of the frame returned, under either of its labels
balance_column(label) ==
    IF label \in DOMAIN df_model THEN df_model[label]
    ELSE df_model[label \o "_orig"]

\* C12: the frame extract_results returns is consistent in itself: for
\* every approach dsm_tot = dsm_do_shift - dsm_up and dsm_acum is the
\* running sum of dsm_tot; for approach 'DLR' (with shedding and with
\* use_no_shed in plotting.py, by name in the variants) dsm_do_shift =
\* dsm_do_orig + balance of the upward shifts and dsm_up = dsm_up_orig +
\* balance of the downward shifts.
C12_AggregatesConsistent ==
    (module \in PlottingModules /\ pc = "returned")
        => /\ df_model["dsm_tot"]
                = series_sub(df_model["dsm_do_shift"], df_model["dsm_up"])
           /\ df_model["dsm_acum"] = cumsum(df_model["dsm_tot"])
           /\ approach = "DLR"
                => /\ df_model["dsm_do_shift"]
                        = series_add(df_model["dsm_do_orig"],
                                     balance_column("balance_dsm_up"))
                   /\ df_model["dsm_up"]
                        = series_add(df_model["dsm_up_orig"],
                                     balance_column("balance_dsm_do"))

(***************************************************************************)
(* Specifications                                                          *)
(***************************************************************************)
\* attributes no SinkDSM has
NoDRAttrs ==
    /\ NoExtraction
    /\ module = "oemof_SinkDSM"
    /\ shift_time = None
    /\ ActivateYearLimit = FALSE
    /\ ActivateDayLimit = FALSE
    /\ addition = FALSE
    /\ n_yearLimit_shift = None
    /\ n_yearLimit_shed = None
    /\ t_dayLimit = None

NothingBuilt ==
    /\ pc = "constructed"
    /\ err = "none"
    /\ blockClass = "none"
    /\ block = EmptyBlock
    /\ dsm_up = NoVar
    /\ dsm_do = NoVar
    /\ dsm_do_shift = NoVar
    /\ dsm_do_shed = NoVar
    /\ balance_dsm_do = NoVar
    /\ balance_dsm_up = NoVar

\* SinkDSM(...) with every combination of the parameters constraint_group reads
InitGroup ==
    /\ NothingBuilt
    /\ NoDRAttrs
    /\ method \in Methods
    /\ shift_interval \in OrNone(1 .. MaxInterval)
    /\ delay_time \in OrNone(1 .. MaxDelay)
    /\ recovery_time_shed \in OrNone({1})
    /\ shed_eligibility \in BOOLEAN
    /\ shift_eligibility \in BOOLEAN
    /\ recovery_time_shift = None
    /\ shed_time = None
    /\ efficiency = <<1, 1>>
    /\ demand = MaxCapacity
    /\ capacity_up = 1
    /\ capacity_down = 1
    /\ horizon = 1
    /\ timeincrement = 1

NextGroup == constraint_group

SpecGroup == InitGroup /\ [][NextGroup]_vars

\* SinkDSM(method='interval', ...) in a model of 1 .. MaxHorizon timesteps
InitInterval ==
    /\ NothingBuilt
    /\ NoDRAttrs
    /\ method = "interval"
    /\ shift_interval \in 1 .. MaxInterval
    /\ delay_time = None
    /\ recovery_time_shed = None
    /\ shed_eligibility = TRUE
    /\ shift_eligibility = TRUE
    /\ recovery_time_shift = None
    /\ shed_time = None
    /\ efficiency \in Efficiencies
    /\ demand = MaxCapacity
    /\ capacity_up \in 1 .. MaxCapacity
    /\ capacity_down \in 1 .. MaxCapacity
    /\ horizon \in 1 .. MaxHorizon
    /\ timeincrement = 1

NextInterval ==
    \/ constraint_group
    \/ interval_create_vars
    \/ interval_input_output_relation_rule
    \/ interval_dsm_up_constraint_rule
    \/ interval_dsm_down_constraint_rule
    \/ dsm_sum_constraint_rule
    \/ interval_solve_dsm_up
    \/ interval_solve_dsm_do

SpecInterval == InitInterval /\ [][NextInterval]_vars

\* SinkDSM(method='delay', ...) in a model of 1 .. MaxHorizon timesteps;
\* the blocks are built, the decision variables keep their initial value
InitDelay ==
    /\ NothingBuilt
    /\ NoDRAttrs
    /\ method = "delay"
    /\ shift_interval = None
    /\ delay_time \in 1 .. MaxDelay
    /\ recovery_time_shed \in OrNone({1})
    /\ shed_eligibility \in BOOLEAN
    /\ shift_eligibility \in BOOLEAN
    /\ recovery_time_shift \in OrNone({2})
    /\ shed_time \in OrNone({2})
    /\ efficiency = <<1, 1>>
    /\ demand = MaxCapacity
    /\ capacity_up = MaxCapacity
    /\ capacity_down = 1
    /\ horizon \in 1 .. MaxHorizon
    /\ timeincrement = 1

NextDelay ==
    \/ constraint_group
    \/ delay_create_vars
    \/ delay_shift_shed_vars_rule
    \/ delay_input_output_relation_rule
    \/ dsm_up_down_constraint_rule
    \/ delay_dsm_up_constraint_rule
    \/ dsm_do_constraint_rule
    \/ c2_constraint_rule
    \/ recovery_constraint_rule
    \/ shed_limit_constraint_rule

SpecDelay == InitDelay /\ [][NextDelay]_vars

\* the <<horizon, delay_time>> and <<capacity_up, capacity_down>> of the
\* models handed to the solver
SolveCases == {<<3, 1>>}
SolveCapacities == {<<1, 1>>, <<2, 1>>, <<1, 2>>}

\* SinkDSM(method='delay', ...) on the shortest horizon the delay block can
\* be built on, handed to the solver
InitDelaySolve ==
    /\ NothingBuilt
    /\ NoDRAttrs
    /\ method = "delay"
    /\ shift_interval = None
    /\ \E c \in SolveCases : horizon = c[1] /\ delay_time = c[2]
    /\ shed_eligibility \in BOOLEAN
    /\ shift_eligibility \in BOOLEAN
    /\ shed_eligibility \/ shift_eligibility
    /\ recovery_time_shed = 1
    /\ recovery_time_shift = None
    /\ shed_time = 2
    /\ efficiency \in Efficiencies
    /\ demand = MaxCapacity
    /\ \E c \in SolveCapacities : capacity_up = c[1] /\ capacity_down = c[2]
    /\ timeincrement = 1

NextDelaySolve ==
    \/ NextDelay
    \/ delay_solve_dsm_up
    \/ delay_solve_dsm_do_shift
    \/ delay_solve_dsm_do_shed

SpecDelaySolve == InitDelaySolve /\ [][NextDelaySolve]_vars

\* attributes no SinkDR has
NoDSMAttrs ==
    /\ NoExtraction
    /\ method = "none"
    /\ shift_interval = None
    /\ recovery_time_shift = None
    /\ recovery_time_shed = None

\* SinkDR(...) of either DLR module is called with every combination of the
\* parameters __init__ checks
InitSinkDR ==
    /\ pc = "call"
    /\ err = "none"
    /\ blockClass = "none"
    /\ block = EmptyBlock
    /\ dsm_up = NoVar /\ dsm_do = NoVar
    /\ dsm_do_shift = NoVar /\ dsm_do_shed = NoVar
    /\ balance_dsm_do = NoVar /\ balance_dsm_up = NoVar
    /\ NoDSMAttrs
    /\ module \in DLRModules
    /\ ActivateYearLimit \in BOOLEAN
    /\ ActivateDayLimit \in BOOLEAN
    /\ n_yearLimit_shift \in OrNone({1, 2})
    /\ n_yearLimit_shed \in OrNone({1, 2})
    /\ t_dayLimit \in OrNone({1, 2})
    /\ shed_eligibility \in BOOLEAN
    /\ shift_eligibility \in BOOLEAN
    /\ addition = FALSE
    /\ delay_time = 1
    /\ shift_time = 1
    /\ shed_time = 1
    /\ efficiency = <<1, 1>>
    /\ demand = MaxCapacity
    /\ capacity_up = 1
    /\ capacity_down = 1
    /\ horizon = 1
    /\ timeincrement = 1

NextSinkDR == SinkDR_init

SpecSinkDR == InitSinkDR /\ [][NextSinkDR]_vars

\* the <<horizon, delay_time>> of the SinkDR models handed to the solver
DRCases == {<<2, 2>>, <<3, 1>>, <<3, 2>>}

\* a constructed SinkDR of the no_shed module, year and day limits off
InitDRBlock ==
    /\ NothingBuilt
    /\ NoDSMAttrs
    /\ module = "DLR_no_shed"
    /\ ActivateYearLimit = FALSE
    /\ ActivateDayLimit = FALSE
    /\ n_yearLimit_shift = None
    /\ n_yearLimit_shed = 1
    /\ t_dayLimit = None
    /\ shed_eligibility = TRUE
    /\ shift_eligibility \in BOOLEAN
    /\ addition \in BOOLEAN
    /\ \E c \in DRCases : horizon = c[1] /\ delay_time = c[2]
    /\ shift_time = 2
    /\ shed_time = 1
    /\ efficiency \in Efficiencies
    /\ demand = MaxCapacity
    /\ capacity_up = MaxCapacity
    /\ capacity_down = MaxCapacity
    /\ timeincrement \in {1, 2}

NextDRBlock ==
    \/ dr_constraint_group
    \/ dr_create_vars
    \/ dr_shift_shed_vars_rule
    \/ dr_input_output_relation_rule
    \/ capacity_balance_red_rule
    \/ capacity_balance_inc_rule
    \/ availability_red_rule
    \/ availability_inc_rule
    \/ dr_storage_red_rule
    \/ dr_storage_inc_rule
    \/ dr_storage_limit_red_rule
    \/ dr_storage_limit_inc_rule
    \/ dr_logical_constraint_rule
    \/ dr_solve_dsm_do_shift
    \/ dr_solve_dsm_up
    \/ dr_solve_balance_dsm_do
    \/ dr_solve_balance_dsm_up

SpecDRBlock == InitDRBlock /\ [][NextDRBlock]_vars

\* the column labels of the demand-response sequences, by position
ColumnNames ==
    <<"flow", "dsm_do_level", "dsm_up_level", "balance_dsm_do",
      "balance_dsm_up", "dsm_do_shed", "dsm_do_shift", "dsm_up">>

\* values extract_results is called with besides the four approaches
OtherApproaches == {"dlr", "XYZ"}

\* extract_results of one of the three plotting modules is called on a
\* solved model whose demand-response sequences are, column by column,
\* either all zero or rising with the row
InitExtract ==
    /\ pc = "call"
    /\ err = "none"
    /\ blockClass = "none"
    /\ block = EmptyBlock
    /\ dsm_up = NoVar /\ dsm_do = NoVar
    /\ dsm_do_shift = NoVar /\ dsm_do_shed = NoVar
    /\ balance_dsm_do = NoVar /\ balance_dsm_up = NoVar
    /\ module \in PlottingModules
    /\ method = "none"
    /\ shift_interval = None /\ delay_time = None
    /\ shift_time = None /\ shed_time = None
    /\ recovery_time_shift = None /\ recovery_time_shed = None
    /\ shed_eligibility = TRUE /\ shift_eligibility = TRUE
    /\ efficiency = <<1, 1>>
    /\ demand = MaxCapacity /\ capacity_up = 1 /\ capacity_down = 1
    /\ ActivateYearLimit = FALSE /\ ActivateDayLimit = FALSE
    /\ addition = FALSE
    /\ n_yearLimit_shift = None /\ n_yearLimit_shed = None
    /\ t_dayLimit = None
    /\ horizon = NRows
    /\ timeincrement = 1
    /\ approach \in Approaches \cup OtherApproaches
    /\ use_no_shed \in BOOLEAN
    /\ rename_inplace \in {"self", "None"}
    /\ \E level \in [1 .. (Len(ColumnNames) - 1) -> {0, 1}] :
          dsm_seqs = [c \in 0 .. (Len(ColumnNames) - 1) |->
                        [name |-> ColumnNames[c + 1],
                         val |-> [i \in Rows |->
                                    IF c = 0 THEN MaxCapacity
                                    ELSE level[c] * i]]]
    /\ df_model = NoFrame

NextExtract ==
    \/ plotting_extract_results
    \/ INREC_extract_results
    \/ PR_extract_results

SpecExtract == InitExtract /\ [][NextExtract]_vars

====
